---- MODULE Spec2Model ----
(***************************************************************************)
(* Conway's Game of Life simulator (src/main.py): the generation engine    *)
(* (count_live_neighbors, apply_rules), the generators, the event handlers *)
(* and the main loop, as a state machine.                                  *)
(*                                                                         *)
(* A grid position is the pair <<x, y>> the code stores in grid_positions. *)
(* The screen dimensions and the update frequency are module constants of  *)
(* the program; they are fixed at start-up, so the model chooses them in   *)
(* Init and never changes them.                                            *)
(***************************************************************************)
EXTENDS Integers, Sequences, FiniteSets, TLC

VARIABLES
    SCREEN_WIDTH,    \* main.py:27, pixels
    SCREEN_HEIGHT,   \* main.py:27, pixels
    UPDATE_FREQ,     \* main.py:40, frames per grid update
    grid_positions,  \* main.py:247, the set of live positions
    running,         \* main.py:249
    playing,         \* main.py:250
    count,           \* main.py:251, frames since the last grid update
    iteration,       \* main.py:252
    pc,              \* position in main's loop: "tick", "events", "done";
                     \* "call" / "returned" when a function is called directly
    updated,         \* main.py:263, the grid update ran in this pass of the loop
    event,           \* main.py:267, the event handled last in this pass
    call             \* the direct call of an engine function and its result

vars == <<SCREEN_WIDTH, SCREEN_HEIGHT, UPDATE_FREQ, grid_positions, running,
          playing, count, iteration, pc, updated, event, call>>

config == <<SCREEN_WIDTH, SCREEN_HEIGHT, UPDATE_FREQ>>

(***************************************************************************)
(* Bounds of the model.                                                    *)
(***************************************************************************)
\* main loop: tiles per axis, tiles in the grid, update frequency, iteration
MaxTiles == 3
MaxCells == 4
MaxFreq == 2
MaxIteration == 3
\* direct calls of the engine: tiles per axis and live cells of the argument
MaxEngineTiles == 5
MaxLive == 2
\* blinker scenario: frames begun while playing
MaxBlinkerTicks == 40

(***************************************************************************)
(* Constants of main.py.                                                   *)
(***************************************************************************)
TILE_SIZE == 5

ROWS == SCREEN_WIDTH \div TILE_SIZE

COLS == SCREEN_HEIGHT \div TILE_SIZE

\* The positions (x, y) with 0 <= x < COLS and 0 <= y < ROWS: the loops of
\* generate_random_grid_positions and generate_pattern.
GridCells == {<<x, y>> : x \in 0..(COLS - 1), y \in 0..(ROWS - 1)}

\* All subsets of S with at most k elements.
RECURSIVE SubsetsUpTo(_, _)
SubsetsUpTo(S, k) ==
    IF k = 0 THEN {{}}
    ELSE LET T == SubsetsUpTo(S, k - 1)
         IN  T \cup {t \cup {x} : t \in T, x \in S}

(***************************************************************************)
(* Generation engine.                                                      *)
(***************************************************************************)
offsets ==
    << <<-1, -1>>, <<-1, 0>>, <<-1, 1>>, <<0, -1>>,
       <<0, 1>>, <<1, -1>>, <<1, 0>>, <<1, 1>> >>

\* A remainder that truncates towards zero, as C's % does.
TruncMod(a, n) == IF a < 0 THEN 0 - ((0 - a) % n) ELSE a % n

\* Python's a % n for n > 0: the result is in 0..n-1 also for negative a.
PyMod(a, n) == a % n

\* The neighbour tested for the i-th offset (main.py:141-145).
neighbor_pos(position, i) ==
    <<PyMod(position[1] + offsets[i][1], COLS),
      PyMod(position[2] + offsets[i][2], ROWS)>>

\* One increment per offset whose neighbour is live (main.py:146-147).
count_live_neighbors(positions, position) ==
    Cardinality({i \in 1..Len(offsets) : neighbor_pos(position, i) \in positions})

\* The positions the loops of apply_rules visit: position = (row, col).
RulePositions == {<<row, col>> : row \in 0..(ROWS - 1), col \in 0..(COLS - 1)}

\* apply_rules whose survival test is `count <= 3`.
apply_rules_survive_le3(positions) ==
    {position \in RulePositions :
        LET count_of_live_neighbors == count_live_neighbors(positions, position)
        IN  \/ /\ position \in positions
               /\ count_of_live_neighbors <= 3
            \/ /\ count_of_live_neighbors = 3
               /\ position \notin positions}

\* apply_rules whose survival rule iterates over the live set instead of the
\* positions of the grid.
apply_rules_over_live(positions) ==
    {position \in positions : count_live_neighbors(positions, position) \in {2, 3}}
    \cup {position \in RulePositions :
            /\ count_live_neighbors(positions, position) = 3
            /\ position \notin positions}

apply_rules(positions) ==
    {position \in RulePositions :
        LET count_of_live_neighbors == count_live_neighbors(positions, position)
        IN  \/ /\ position \in positions
               /\ (count_of_live_neighbors = 2 \/ count_of_live_neighbors = 3)
            \/ /\ count_of_live_neighbors = 3
               /\ position \notin positions}

(***************************************************************************)
(* Generators.                                                             *)
(***************************************************************************)
\* heads: the positions at which random.random() < RANDOM_DENSITY came out
\* true; with a density of 0.5 every set of positions is a possible outcome.
generate_random_grid_positions(heads) ==
    {random_pos \in GridCells : random_pos \in heads}

Square(n) == n * n

generate_pattern ==
    {p \in GridCells :
        LET x == p[1]
            y == p[2]
            dx == x - COLS \div 2
            dy == y - ROWS \div 2
        IN  \/ x = COLS \div 2 \/ y = ROWS \div 2
            \/ x = y \/ x = COLS - y
            \/ /\ Square((ROWS - 10) \div 2) < Square(dx) + Square(dy)
               /\ Square(dx) + Square(dy) < Square(ROWS \div 2)
            \/ y = (ROWS \div 2) - (Square(dx) \div 100)
            \/ y = (ROWS \div 2) - (Square(Square(dx)) \div 1000000)}

(***************************************************************************)
(* Event handlers.                                                         *)
(***************************************************************************)
\* pygame.mouse.get_pos(): a pixel of the window.
MousePositions == (0..(SCREEN_WIDTH - 1)) \X (0..(SCREEN_HEIGHT - 1))

grid_pos_of(mouse_pos) ==
    <<mouse_pos[1] \div TILE_SIZE, mouse_pos[2] \div TILE_SIZE>>

\* The positions a click in the window can name: grid_pos_of of every
\* pixel of the window (the quotient grows with the pixel coordinate).
ClickCells ==
    {<<x, y>> : x \in 0..((SCREEN_WIDTH - 1) \div TILE_SIZE),
                y \in 0..((SCREEN_HEIGHT - 1) \div TILE_SIZE)}

\* The first pixel of a tile.
TilePixel(cell) == <<TILE_SIZE * cell[1], TILE_SIZE * cell[2]>>

\* handle_mouse_click without the removal branch.
handle_mouse_click_add(positions, mouse_pos) ==
    positions \cup {grid_pos_of(mouse_pos)}

handle_mouse_click(positions, mouse_pos) ==
    LET grid_pos == grid_pos_of(mouse_pos)
    IN  IF grid_pos \in positions
        THEN positions \ {grid_pos}
        ELSE positions \cup {grid_pos}

\* The events of pygame the handler tells apart.
QuitEvent == [type |-> "QUIT", key |-> "none", button |-> 0]
KeyEvent(k) == [type |-> "KEYDOWN", key |-> k, button |-> 0]
MouseEvent(b) == [type |-> "MOUSEBUTTONDOWN", key |-> "none", button |-> b]
OtherEvent == [type |-> "MOUSEMOTION", key |-> "none", button |-> 0]
\* no event handled yet in this pass of the loop
NoEvent == [type |-> "none", key |-> "none", button |-> 0]

\* env: what the environment supplies while an event is handled, the mouse
\* position read by handle_mouse_click (mouse_pos) and the outcome of the
\* random draws (heads).
\* handle_event's return value (main.py:214) as a record.
State(g, c, p, r, i) ==
    [grid_positions |-> g, count |-> c, playing |-> p, running |-> r,
     iteration |-> i]

\* handle_event whose K_c branch leaves count alone, as its K_r branch does.
handle_event_c_keeps_count(e, g, c, p, r, i, env) ==
    IF e.type = "QUIT" THEN State(g, c, p, FALSE, i)
    ELSE IF e.type = "KEYDOWN" THEN
        IF e.key = "K_SPACE" THEN State(g, c, ~p, r, i)
        ELSE IF e.key = "K_c" THEN State({}, c, FALSE, r, 0)
        ELSE IF e.key = "K_r"
            THEN State(generate_random_grid_positions(env.heads), c, p, r, 0)
        ELSE IF e.key = "K_p" THEN State(generate_pattern, c, FALSE, r, 0)
        ELSE State(g, c, p, r, i)
    ELSE IF e.type = "MOUSEBUTTONDOWN" /\ e.button = 1
        THEN State(handle_mouse_click(g, env.mouse_pos), c, p, r, i)
    ELSE State(g, c, p, r, i)

\* handle_event whose K_r branch resets count, as its K_c branch does.
handle_event_r_resets_count(e, g, c, p, r, i, env) ==
    IF e.type = "QUIT" THEN State(g, c, p, FALSE, i)
    ELSE IF e.type = "KEYDOWN" THEN
        IF e.key = "K_SPACE" THEN State(g, c, ~p, r, i)
        ELSE IF e.key = "K_c" THEN State({}, 0, FALSE, r, 0)
        ELSE IF e.key = "K_r"
            THEN State(generate_random_grid_positions(env.heads), 0, p, r, 0)
        ELSE IF e.key = "K_p" THEN State(generate_pattern, c, FALSE, r, 0)
        ELSE State(g, c, p, r, i)
    ELSE IF e.type = "MOUSEBUTTONDOWN" /\ e.button = 1
        THEN State(handle_mouse_click(g, env.mouse_pos), c, p, r, i)
    ELSE State(g, c, p, r, i)

\* handle_event whose K_r branch pauses, as its K_p branch does.
handle_event_r_pauses(e, g, c, p, r, i, env) ==
    IF e.type = "QUIT" THEN State(g, c, p, FALSE, i)
    ELSE IF e.type = "KEYDOWN" THEN
        IF e.key = "K_SPACE" THEN State(g, c, ~p, r, i)
        ELSE IF e.key = "K_c" THEN State({}, 0, FALSE, r, 0)
        ELSE IF e.key = "K_r"
            THEN State(generate_random_grid_positions(env.heads), c, FALSE, r, 0)
        ELSE IF e.key = "K_p" THEN State(generate_pattern, c, FALSE, r, 0)
        ELSE State(g, c, p, r, i)
    ELSE IF e.type = "MOUSEBUTTONDOWN" /\ e.button = 1
        THEN State(handle_mouse_click(g, env.mouse_pos), c, p, r, i)
    ELSE State(g, c, p, r, i)

handle_event(e, g, c, p, r, i, env) ==
    IF e.type = "QUIT" THEN State(g, c, p, FALSE, i)
    ELSE IF e.type = "KEYDOWN" THEN
        IF e.key = "K_SPACE" THEN State(g, c, ~p, r, i)
        ELSE IF e.key = "K_c" THEN State({}, 0, FALSE, r, 0)
        ELSE IF e.key = "K_r"
            THEN State(generate_random_grid_positions(env.heads), c, p, r, 0)
        ELSE IF e.key = "K_p" THEN State(generate_pattern, c, FALSE, r, 0)
        ELSE State(g, c, p, r, i)
    ELSE IF e.type = "MOUSEBUTTONDOWN" /\ e.button = 1
        THEN State(handle_mouse_click(g, env.mouse_pos), c, p, r, i)
    ELSE State(g, c, p, r, i)

(***************************************************************************)
(* main: one pass of the loop body up to the event loop (main.py:259-265). *)
(***************************************************************************)
\* main_tick with the threshold test `count > UPDATE_FREQ`.
main_tick_gt(g, c, p, i) ==
    LET c1 == IF p THEN c + 1 ELSE c
        i1 == IF p THEN i + 1 ELSE i
    IN  IF c1 > UPDATE_FREQ
        THEN [grid_positions |-> apply_rules(g), count |-> 0, iteration |-> i1,
              updated |-> TRUE]
        ELSE [grid_positions |-> g, count |-> c1, iteration |-> i1,
              updated |-> FALSE]

\* main_tick with the result of apply_rules dropped instead of assigned.
main_tick_keep(g, c, p, i) ==
    LET c1 == IF p THEN c + 1 ELSE c
        i1 == IF p THEN i + 1 ELSE i
    IN  IF c1 >= UPDATE_FREQ
        THEN [grid_positions |-> g, count |-> 0, iteration |-> i1,
              updated |-> TRUE]
        ELSE [grid_positions |-> g, count |-> c1, iteration |-> i1,
              updated |-> FALSE]

\* main_tick that increments iteration only when the grid is updated.
main_tick_iteration_on_update(g, c, p, i) ==
    LET c1 == IF p THEN c + 1 ELSE c
    IN  IF c1 >= UPDATE_FREQ
        THEN [grid_positions |-> apply_rules(g), count |-> 0, iteration |-> i + 1,
              updated |-> TRUE]
        ELSE [grid_positions |-> g, count |-> c1, iteration |-> i,
              updated |-> FALSE]

\* main_tick that counts the frame whether or not the program is playing.
main_tick_counts_paused(g, c, p, i) ==
    LET c1 == c + 1
        i1 == IF p THEN i + 1 ELSE i
    IN  IF c1 >= UPDATE_FREQ
        THEN [grid_positions |-> apply_rules(g), count |-> 0, iteration |-> i1,
              updated |-> TRUE]
        ELSE [grid_positions |-> g, count |-> c1, iteration |-> i1,
              updated |-> FALSE]

main_tick(g, c, p, i) ==
    LET c1 == IF p THEN c + 1 ELSE c
        i1 == IF p THEN i + 1 ELSE i
    IN  IF c1 >= UPDATE_FREQ
        THEN [grid_positions |-> apply_rules(g), count |-> 0, iteration |-> i1,
              updated |-> TRUE]
        ELSE [grid_positions |-> g, count |-> c1, iteration |-> i1,
              updated |-> FALSE]

(***************************************************************************)
(* The main loop as a state machine.                                       *)
(***************************************************************************)
NoCall == [fn |-> "none", position |-> <<0, 0>>, tested |-> <<>>, result |-> 0]

Configs(maxTiles, maxCells) ==
    {wh \in {TILE_SIZE * n : n \in 1..maxTiles} \X {TILE_SIZE * n : n \in 1..maxTiles} :
        (wh[1] \div TILE_SIZE) * (wh[2] \div TILE_SIZE) <= maxCells}

\* main.py:247-252
Init ==
    /\ \E wh \in Configs(MaxTiles, MaxCells) :
          SCREEN_WIDTH = wh[1] /\ SCREEN_HEIGHT = wh[2]
    /\ UPDATE_FREQ \in 1..MaxFreq
    /\ grid_positions = {}
    /\ running = TRUE
    /\ playing = FALSE
    /\ count = 0
    /\ iteration = 0
    /\ pc = "tick"
    /\ updated = FALSE
    /\ event = NoEvent
    /\ call = NoCall

\* main.py:254-265: the loop test, the clock tick, the counters and the update
TickUpTo(maxIteration) ==
    /\ pc = "tick"
    /\ running
    /\ playing => iteration < maxIteration
    /\ LET t == main_tick(grid_positions, count, playing, iteration)
       IN  /\ grid_positions' = t.grid_positions
           /\ count' = t.count
           /\ iteration' = t.iteration
           /\ updated' = t.updated
    /\ pc' = "events"
    /\ UNCHANGED <<config, running, playing, event, call>>

Tick == TickUpTo(MaxIteration)

\* main.py:267-268: one event of pygame.event.get() is handled
Handle(e, env) ==
    /\ pc = "events"
    /\ event' = e
    /\ LET s == handle_event(e, grid_positions, count, playing, running,
                             iteration, env)
       IN  /\ grid_positions' = s.grid_positions
           /\ count' = s.count
           /\ playing' = s.playing
           /\ running' = s.running
           /\ iteration' = s.iteration
    /\ UNCHANGED <<config, pc, updated, call>>

\* An event whose handling reads neither the mouse nor the random source.
NoEnv == [mouse_pos |-> <<0, 0>>, heads |-> {}]

Quit ==
    /\ pc = "events"
    /\ Handle(QuitEvent, NoEnv)

KeySpace ==
    /\ pc = "events"
    /\ Handle(KeyEvent("K_SPACE"), NoEnv)

KeyC ==
    /\ pc = "events"
    /\ Handle(KeyEvent("K_c"), NoEnv)

KeyR ==
    \E heads \in SUBSET GridCells :
        Handle(KeyEvent("K_r"), [mouse_pos |-> <<0, 0>>, heads |-> heads])

KeyP ==
    /\ pc = "events"
    /\ Handle(KeyEvent("K_p"), NoEnv)

KeyOther ==
    /\ pc = "events"
    /\ Handle(KeyEvent("K_x"), NoEnv)

\* A click on one of the given positions. handle_mouse_click reads the mouse
\* position only through grid_pos_of, so one pixel of each tile stands for
\* all the pixels of that tile.
MouseClickAt(cells) ==
    \E grid_pos \in cells :
        Handle(MouseEvent(1), [mouse_pos |-> TilePixel(grid_pos), heads |-> {}])

MouseClick == MouseClickAt(ClickCells)

MouseOther ==
    /\ pc = "events"
    /\ Handle(MouseEvent(3), NoEnv)

Ignored ==
    /\ pc = "events"
    /\ Handle(OtherEvent, NoEnv)

\* main.py:270-276: the frame is drawn; the loop test ends the loop after QUIT
EndFrame ==
    /\ pc = "events"
    /\ pc' = IF running THEN "tick" ELSE "done"
    /\ updated' = FALSE
    /\ event' = NoEvent
    /\ UNCHANGED <<config, grid_positions, running, playing, count, iteration, call>>

Next ==
    \/ Tick
    \/ Quit
    \/ KeySpace
    \/ KeyC
    \/ KeyR
    \/ KeyP
    \/ KeyOther
    \/ MouseClick
    \/ MouseOther
    \/ Ignored
    \/ EndFrame

Spec == Init /\ [][Next]_vars

(***************************************************************************)
(* The main loop when every click names a position of the grid (the mouse  *)
(* stays on tiles with 0 <= x < COLS and 0 <= y < ROWS).                   *)
(***************************************************************************)
MouseClickInBounds == MouseClickAt(ClickCells \cap GridCells)

NextInBounds ==
    \/ Tick
    \/ Quit
    \/ KeySpace
    \/ KeyC
    \/ KeyR
    \/ KeyP
    \/ KeyOther
    \/ MouseClickInBounds
    \/ MouseOther
    \/ Ignored
    \/ EndFrame

SpecInBounds == Init /\ [][NextInBounds]_vars

(***************************************************************************)
(* The blinker scenario: a 10x10 grid updated on every playing frame,      *)
(* paused, with the vertical blinker {(5,5),(5,6),(5,7)} alive; the only   *)
(* events are presses of the space bar.                                    *)
(***************************************************************************)
BlinkerVertical == {<<5, 5>>, <<5, 6>>, <<5, 7>>}

BlinkerHorizontal == {<<4, 6>>, <<5, 6>>, <<6, 6>>}

InitBlinker ==
    /\ SCREEN_WIDTH = 10 * TILE_SIZE
    /\ SCREEN_HEIGHT = 10 * TILE_SIZE
    /\ UPDATE_FREQ = 1
    /\ grid_positions = BlinkerVertical
    /\ running = TRUE
    /\ playing = FALSE
    /\ count = 0
    /\ iteration = 0
    /\ pc = "tick"
    /\ updated = FALSE
    /\ event = NoEvent
    /\ call = NoCall

TickBlinker == TickUpTo(MaxBlinkerTicks)

NextBlinker ==
    \/ TickBlinker
    \/ KeySpace
    \/ EndFrame

SpecBlinker == InitBlinker /\ [][NextBlinker]_vars

(***************************************************************************)
(* The engine functions called directly, on every grid of up to            *)
(* MaxEngineTiles tiles per axis and every set of at most MaxLive live     *)
(* positions of the grid.                                                  *)
(***************************************************************************)
InitEngine ==
    /\ \E wh \in Configs(MaxEngineTiles, MaxEngineTiles * MaxEngineTiles) :
          SCREEN_WIDTH = wh[1] /\ SCREEN_HEIGHT = wh[2]
    /\ UPDATE_FREQ = MaxFreq
    /\ grid_positions \in SubsetsUpTo(GridCells, MaxLive)
    /\ running = TRUE
    /\ playing = FALSE
    /\ count = 0
    /\ iteration = 0
    /\ pc = "call"
    /\ updated = FALSE
    /\ event = NoEvent
    /\ call = NoCall

\* count_live_neighbors(grid_positions, position), main.py:121-149
CallCountLiveNeighbors ==
    /\ pc = "call"
    /\ \E position \in GridCells :
          call' = [fn |-> "count_live_neighbors",
                   position |-> position,
                   tested |-> [i \in 1..Len(offsets) |-> neighbor_pos(position, i)],
                   result |-> count_live_neighbors(grid_positions, position)]
    /\ pc' = "returned"
    /\ UNCHANGED <<config, grid_positions, running, playing, count, iteration,
                   updated, event>>

\* apply_rules(grid_positions), main.py:151-175
CallApplyRules ==
    /\ pc = "call"
    /\ call' = [fn |-> "apply_rules",
                position |-> <<0, 0>>,
                tested |-> <<>>,
                result |-> apply_rules(grid_positions)]
    /\ pc' = "returned"
    /\ UNCHANGED <<config, grid_positions, running, playing, count, iteration,
                   updated, event>>

NextEngine ==
    \/ CallCountLiveNeighbors
    \/ CallApplyRules

SpecEngine == InitEngine /\ [][NextEngine]_vars

(***************************************************************************)
(* Conway's rules on the torus, stated without the program's functions.    *)
(***************************************************************************)
(***************************************************************************)
(* apply_rules on a blinker or a block: every placement of three cells in  *)
(* a row or column and of a 2x2 square, edges included, on every grid of   *)
(* 4..MaxPatternTiles tiles per side.                                      *)
(***************************************************************************)
MaxPatternTiles == 6

\* v wrapped into 0..n-1, for v in -1..n
Wrap(v, n) == IF v < 0 THEN v + n ELSE IF v >= n THEN v - n ELSE v

\* The neighbour of p in direction d: x wraps modulo COLS, y modulo ROWS.
Torus(p, d) == <<Wrap(p[1] + d[1], COLS), Wrap(p[2] + d[2], ROWS)>>

\* three cells centred on c: "row" varies x, "column" varies y
Line(c, o) ==
    IF o = "row"
    THEN {Torus(c, <<-1, 0>>), c, Torus(c, <<1, 0>>)}
    ELSE {Torus(c, <<0, -1>>), c, Torus(c, <<0, 1>>)}

Perpendicular(o) == IF o = "row" THEN "column" ELSE "row"

\* the 2x2 square whose corner of least offsets is c
Block(c) == {c, Torus(c, <<1, 0>>), Torus(c, <<0, 1>>), Torus(c, <<1, 1>>)}

Patterns ==
    {Line(c, o) : c \in GridCells, o \in {"row", "column"}}
    \cup {Block(c) : c \in GridCells}

InitPatterns ==
    /\ \E r \in 4..MaxPatternTiles, c \in 4..MaxPatternTiles :
          SCREEN_WIDTH = TILE_SIZE * r /\ SCREEN_HEIGHT = TILE_SIZE * c
    /\ UPDATE_FREQ = 1
    /\ grid_positions \in Patterns
    /\ running = TRUE
    /\ playing = FALSE
    /\ count = 0
    /\ iteration = 0
    /\ pc = "call"
    /\ updated = FALSE
    /\ event = NoEvent
    /\ call = NoCall

\* apply_rules(apply_rules(grid_positions)): two successive updates of
\* main.py:265
CallApplyRulesTwice ==
    /\ pc = "call"
    /\ call' = [fn |-> "apply_rules_twice",
                position |-> <<0, 0>>,
                tested |-> <<>>,
                result |-> apply_rules(apply_rules(grid_positions))]
    /\ pc' = "returned"
    /\ UNCHANGED <<config, grid_positions, running, playing, count, iteration,
                   updated, event>>

NextPatterns ==
    \/ CallCountLiveNeighbors
    \/ CallApplyRules
    \/ CallApplyRulesTwice

SpecPatterns == InitPatterns /\ [][NextPatterns]_vars

(***************************************************************************)
(* apply_rules on a live set that holds coordinates outside the grid: a    *)
(* square grid of up to MaxOutsideTiles tiles per side, up to MaxLive      *)
(* cells of the grid and at most one cell of the ring around it.           *)
(***************************************************************************)
MaxOutsideTiles == 3

OutsideCells ==
    {<<x, y>> : x \in (-1)..COLS, y \in (-1)..ROWS} \ GridCells

InitOutside ==
    /\ \E n \in 1..MaxOutsideTiles :
          SCREEN_WIDTH = TILE_SIZE * n /\ SCREEN_HEIGHT = TILE_SIZE * n
    /\ UPDATE_FREQ = 1
    /\ \E inside \in SubsetsUpTo(GridCells, MaxLive),
          outside \in SubsetsUpTo(OutsideCells, 1) :
          grid_positions = inside \cup outside
    /\ running = TRUE
    /\ playing = FALSE
    /\ count = 0
    /\ iteration = 0
    /\ pc = "call"
    /\ updated = FALSE
    /\ event = NoEvent
    /\ call = NoCall

NextOutside == CallApplyRules

SpecOutside == InitOutside /\ [][NextOutside]_vars

Moore == ((-1..1) \X (-1..1)) \ {<<0, 0>>}

LiveNeighbours(S, p) == Cardinality({d \in Moore : Torus(p, d) \in S})

LifeNext(S) ==
    {p \in GridCells :
        \/ p \in S /\ LiveNeighbours(S, p) \in {2, 3}
        \/ p \notin S /\ LiveNeighbours(S, p) = 3}

InBounds(p) == p[1] \in 0..(COLS - 1) /\ p[2] \in 0..(ROWS - 1)

ReturnedFrom(fn) == pc = "returned" /\ call.fn = fn

(***************************************************************************)
(* C1: for every grid and every live set within the grid, apply_rules      *)
(* returns exactly the cells of the grid that are alive with 2 or 3 live   *)
(* toroidal Moore neighbours or dead with exactly 3, x wrapping modulo     *)
(* COLS and y modulo ROWS.                                                 *)
(***************************************************************************)
C1_ApplyRulesIsLife ==
    ReturnedFrom("apply_rules") => call.result = LifeNext(grid_positions)

(***************************************************************************)
(* C3: for every live set and every position of the grid,                  *)
(* count_live_neighbors returns a value in 0..8, the 8 coordinates it      *)
(* tests are the position plus each Moore offset, wrapped per axis to a    *)
(* non-negative value (x modulo COLS, y modulo ROWS), and the value is the *)
(* number of tested coordinates that are live; on a 5x5 grid the           *)
(* coordinates tested for (0,0) include (4,4), (4,0) and (0,4).            *)
(***************************************************************************)
C3_CountLiveNeighbors ==
    ReturnedFrom("count_live_neighbors") =>
        /\ call.result \in 0..8
        /\ Len(call.tested) = 8
        /\ {offsets[i] : i \in 1..Len(offsets)} = Moore
        /\ \A i \in 1..8 : call.tested[i] = Torus(call.position, offsets[i])
        /\ call.result = LiveNeighbours(grid_positions, call.position)
        /\ (ROWS = 5 /\ COLS = 5 /\ call.position = <<0, 0>>) =>
               {<<4, 4>>, <<4, 0>>, <<0, 4>>} \subseteq
                   {call.tested[i] : i \in 1..8}

C3_Witness ==
    /\ ReturnedFrom("count_live_neighbors")
    /\ ROWS = 5 /\ COLS = 5
    /\ call.position = <<0, 0>>
    /\ grid_positions = {<<4, 4>>, <<0, 4>>}
    /\ call.result = 2

(***************************************************************************)
(* C2: in every reachable state of the main loop, for every grid size and  *)
(* after any sequence of ticks, key commands and clicks on positions of    *)
(* the grid, every live position (x, y) satisfies 0 <= x < COLS and        *)
(* 0 <= y < ROWS.                                                          *)
(***************************************************************************)
C2_LiveCellsInBounds == \A p \in grid_positions : InBounds(p)

(***************************************************************************)
(* C4: blinker scenario. The space bar is pressed and two frames follow:   *)
(* the press is handled in the first of them.                              *)
(*                                                                         *)
(* As claimed (C4_BlinkerAsClaimed): the live set is {(4,6),(5,6),(6,6)}   *)
(* after the first frame and {(5,5),(5,6),(5,7)} after the second.         *)
(*                                                                         *)
(* As the program behaves (C4_BlinkerScenario): the first frame starts     *)
(* paused and only handles the press, so the live set is still             *)
(* {(5,5),(5,6),(5,7)} after it; it is {(4,6),(5,6),(6,6)} after the       *)
(* second frame and {(5,5),(5,6),(5,7)} after the third. In general the    *)
(* live set after a frame is the vertical blinker when an even number of   *)
(* frames began while playing and the horizontal one when that number is   *)
(* odd. With one update per playing frame, iteration is the number of      *)
(* frames that began while playing.                                        *)
(***************************************************************************)
\* the frame in which the press was handled has ended
AfterFirstFrame == pc = "tick" /\ playing /\ iteration = 0

\* one more frame has ended
AfterSecondFrame == pc = "tick" /\ playing /\ iteration = 1

AfterThirdFrame == pc = "tick" /\ playing /\ iteration = 2

C4_BlinkerAsClaimed ==
    /\ AfterFirstFrame => grid_positions = BlinkerHorizontal
    /\ AfterSecondFrame => grid_positions = BlinkerVertical

C4_BlinkerScenario ==
    /\ AfterFirstFrame => grid_positions = BlinkerVertical
    /\ AfterSecondFrame => grid_positions = BlinkerHorizontal
    /\ AfterThirdFrame => grid_positions = BlinkerVertical
    /\ grid_positions =
          IF iteration % 2 = 0 THEN BlinkerVertical ELSE BlinkerHorizontal

C4_Witness == AfterSecondFrame /\ grid_positions = BlinkerHorizontal

(***************************************************************************)
(* Steps of the main loop, as the claims name them.                        *)
(***************************************************************************)
\* the step handles event e
Handled(e) == pc = "events" /\ pc' = "events" /\ event' = e

\* e is the event handled last in the current pass of the loop
JustHandled(e) == pc = "events" /\ event = e

\* the grid update is due in the pass that starts now
DueAtTick == (IF playing THEN count + 1 ELSE count) >= UPDATE_FREQ

Toggled(S, cell) == IF cell \in S THEN S \ {cell} ELSE S \cup {cell}

(***************************************************************************)
(* C5: in every pass of the loop the due grid update is performed first    *)
(* and the events of the pass are handled afterwards, in order, on the     *)
(* updated live set: the step that starts the pass replaces the live set   *)
(* by apply_rules of it exactly when the update is due and handles no      *)
(* command; no update happens while or after the events of the pass are    *)
(* handled; so K_c handled in a pass with an update leaves the live set    *)
(* empty, and a click toggles membership in the live set as it is then.    *)
(***************************************************************************)
C5_UpdateThenCommands ==
    [][/\ pc = "tick" =>
            /\ pc' = "events"
            /\ updated' = DueAtTick
            /\ grid_positions' =
                  IF DueAtTick THEN apply_rules(grid_positions) ELSE grid_positions
            /\ UNCHANGED <<playing, running, event>>
       /\ pc = "events" =>
            /\ updated' = (updated /\ pc' = "events")
            /\ pc' # "events" => UNCHANGED grid_positions
            /\ Handled(KeyEvent("K_c")) => grid_positions' = {}
            /\ Handled(MouseEvent(1)) =>
                  \E cell \in ClickCells :
                      grid_positions' = Toggled(grid_positions, cell)]_vars

C5_Witness ==
    /\ JustHandled(KeyEvent("K_c"))
    /\ updated
    /\ grid_positions = {}

(***************************************************************************)
(* C6: K_c handled in any reachable state leaves the live set empty, the   *)
(* program paused, and iteration and count at 0.                           *)
(***************************************************************************)
C6_Clear ==
    JustHandled(KeyEvent("K_c")) =>
        /\ grid_positions = {}
        /\ playing = FALSE
        /\ iteration = 0
        /\ count = 0

C6_Witness ==
    /\ JustHandled(KeyEvent("K_c"))
    /\ UPDATE_FREQ = 2
    /\ ~updated
    /\ running

(***************************************************************************)
(* C7: K_c, K_r or K_p handled in any reachable state leaves both          *)
(* iteration and count at 0.                                               *)
(***************************************************************************)
C7_CommandsResetCounters ==
    (\E k \in {"K_c", "K_r", "K_p"} : JustHandled(KeyEvent(k))) =>
        iteration = 0 /\ count = 0

(***************************************************************************)
(* C8: iteration changes only by being reset to 0 when K_c, K_r or K_p is  *)
(* handled, or by growing by one in a step that performs the grid update;  *)
(* every step that performs the grid update adds one to it.                *)
(***************************************************************************)
C8_IterationCountsUpdates ==
    [][/\ iteration' # iteration =>
            \/ /\ iteration' = 0
               /\ \E k \in {"K_c", "K_r", "K_p"} : Handled(KeyEvent(k))
            \/ /\ iteration' = iteration + 1
               /\ pc = "tick" /\ updated'
       /\ (pc = "tick" /\ updated') => iteration' = iteration + 1]_vars

(***************************************************************************)
(* C9: for every position of the grid and every reachable state in which   *)
(* events are handled, a click on the position changes the membership of   *)
(* that position only and leaves playing, running, iteration and count     *)
(* unchanged, and a second click on it restores the live set. The clicks   *)
(* are taken at the four corner pixels of the position's tile.             *)
(***************************************************************************)
CornerPixels(cell) ==
    {<<TILE_SIZE * cell[1] + dx, TILE_SIZE * cell[2] + dy>> :
        dx \in {0, TILE_SIZE - 1}, dy \in {0, TILE_SIZE - 1}}

Click(st, mouse_pos) ==
    handle_event(MouseEvent(1), st.grid_positions, st.count, st.playing,
                 st.running, st.iteration,
                 [mouse_pos |-> mouse_pos, heads |-> {}])

C9_ToggleCell ==
    pc = "events" =>
        \A cell \in ClickCells \cap GridCells :
            \A mouse_pos \in CornerPixels(cell) :
                LET s0 == State(grid_positions, count, playing, running, iteration)
                    s1 == Click(s0, mouse_pos)
                    s2 == Click(s1, mouse_pos)
                IN  /\ mouse_pos \in MousePositions
                    /\ (cell \in s1.grid_positions) = (cell \notin grid_positions)
                    /\ s1.grid_positions \ {cell} = grid_positions \ {cell}
                    /\ s1.playing = playing /\ s1.running = running
                    /\ s1.iteration = iteration /\ s1.count = count
                    /\ s2 = s0

C9_Witness ==
    /\ JustHandled(MouseEvent(1))
    /\ Cardinality(grid_positions) >= 2
    /\ grid_positions \subseteq GridCells
    /\ playing
    /\ count > 0

(***************************************************************************)
(* C10: a click on a position outside the grid is rejected: the live set,  *)
(* playing, iteration and count are left as they were, and the position is *)
(* not inserted into the live set.                                         *)
(***************************************************************************)
C10_OutOfBoundsClickRejected ==
    [][\A cell \in ClickCells \ GridCells :
          MouseClickAt({cell}) =>
              /\ UNCHANGED <<grid_positions, playing, iteration, count>>
              /\ cell \notin grid_positions']_vars

(***************************************************************************)
(* C11: once QUIT has been handled nothing more is processed: the live     *)
(* set, playing, iteration and count stay as they were when QUIT was       *)
(* handled, also for events that follow QUIT in the same pass of the loop. *)
(***************************************************************************)
C11_NothingAfterQuit ==
    [][~running => UNCHANGED <<grid_positions, playing, iteration, count>>]_vars

(***************************************************************************)
(* C12: while the program is paused a pass of the loop performs no grid    *)
(* update: the step that starts a pass in a paused state leaves the live   *)
(* set, iteration and count unchanged for every UPDATE_FREQ, and so does   *)
(* the end of a pass; a pass without events therefore changes none of      *)
(* them.                                                                   *)
(***************************************************************************)
C12_PausedTickDoesNothing ==
    [][/\ (pc = "tick" /\ ~playing) =>
            /\ ~updated'
            /\ UNCHANGED <<grid_positions, iteration, count>>
       /\ (pc = "events" /\ pc' # "events") =>
            UNCHANGED <<grid_positions, iteration, count, playing>>]_vars

\* a pass has started paused, with a live cell and both counters above 0
C12_Witness ==
    /\ pc = "events"
    /\ event = NoEvent
    /\ ~playing
    /\ ~updated
    /\ grid_positions # {}
    /\ count > 0
    /\ iteration > 0

(***************************************************************************)
(* C13: the program starts paused and playing changes only when an event   *)
(* is handled: K_SPACE flips it and changes nothing else (so handling it   *)
(* twice restores the state), K_c and K_p set it to False, and K_r, a      *)
(* click, every other event and the steps that start and end a pass        *)
(* (grid updates included) leave it unchanged.                             *)
(***************************************************************************)
Space(st) ==
    handle_event(KeyEvent("K_SPACE"), st.grid_positions, st.count, st.playing,
                 st.running, st.iteration, NoEnv)

RunModeStep ==
    /\ pc # "events" => playing' = playing
    /\ (pc = "events" /\ pc' # "events") => playing' = playing
    /\ Handled(KeyEvent("K_SPACE")) =>
         /\ playing' = ~playing
         /\ UNCHANGED <<grid_positions, count, iteration, running>>
         /\ LET s0 == State(grid_positions, count, playing, running, iteration)
            IN  Space(Space(s0)) = s0
    /\ Handled(KeyEvent("K_c")) => playing' = FALSE
    /\ Handled(KeyEvent("K_p")) => playing' = FALSE
    /\ (\E e \in {KeyEvent("K_r"), KeyEvent("K_x"), MouseEvent(1),
                   MouseEvent(3), OtherEvent, QuitEvent} : Handled(e)) =>
         playing' = playing

C13_RunMode ==
    /\ ~playing
    /\ [][RunModeStep]_vars

\* K_r has been handled while playing, in a pass that updated the grid
C13_Witness ==
    /\ JustHandled(KeyEvent("K_r"))
    /\ playing
    /\ updated
    /\ grid_positions # {}

(***************************************************************************)
(* C14 as claimed: on every grid, whatever its numbers of rows and         *)
(* columns, apply_rules of a live set of one cell of the grid is empty.    *)
(***************************************************************************)
C14_SingleCellDies ==
    (ReturnedFrom("apply_rules") /\ Cardinality(grid_positions) = 1) =>
        call.result = {}

(***************************************************************************)
(* C14: on every grid of at least 2 rows and 2 columns, apply_rules of a   *)
(* live set of one cell of the grid is empty.                              *)
(***************************************************************************)
C14_SingleCellDiesFrom2x2 ==
    (/\ ReturnedFrom("apply_rules")
     /\ Cardinality(grid_positions) = 1
     /\ ROWS >= 2
     /\ COLS >= 2) =>
        call.result = {}

\* apply_rules has returned the empty set for the cell (3, 2) of a 3x4 grid
C14_Witness ==
    /\ ReturnedFrom("apply_rules")
    /\ ROWS = 3
    /\ COLS = 4
    /\ grid_positions = {<<3, 2>>}
    /\ call.result = {}

(***************************************************************************)
(* C15: on every grid of at least 5 rows and 5 columns and for every       *)
(* centre, edges included, apply_rules maps three live cells in a line to  *)
(* the three cells of the perpendicular line through the same centre, and  *)
(* two applications of apply_rules give back the original live set.        *)
(***************************************************************************)
C15_Blinker ==
    \A c \in GridCells, o \in {"row", "column"} :
        (ROWS >= 5 /\ COLS >= 5 /\ grid_positions = Line(c, o)) =>
            /\ ReturnedFrom("apply_rules") =>
                    call.result = Line(c, Perpendicular(o))
            /\ ReturnedFrom("apply_rules_twice") =>
                    call.result = grid_positions

(***************************************************************************)
(* C16: on every grid of at least 4 rows and 4 columns and for every       *)
(* placement, edges included, apply_rules maps the four cells of a 2x2     *)
(* square to themselves; each of the four has 3 live neighbours and every  *)
(* other cell of the grid at most 2.                                       *)
(***************************************************************************)
C16_Block ==
    \A c \in GridCells :
        (ROWS >= 4 /\ COLS >= 4 /\ grid_positions = Block(c)) =>
            /\ ReturnedFrom("apply_rules") => call.result = grid_positions
            /\ ReturnedFrom("count_live_neighbors") =>
                    IF call.position \in grid_positions
                    THEN call.result = 3
                    ELSE call.result <= 2

(***************************************************************************)
(* C20: on a square grid, coordinates outside the grid in the live set do  *)
(* not influence apply_rules: its result holds cells of the grid only and  *)
(* equals apply_rules of the live set restricted to the grid, and          *)
(* count_live_neighbors of a position of the grid counts no coordinate     *)
(* outside the grid.                                                       *)
(***************************************************************************)
C20_OutsideIgnored ==
    (ROWS = COLS /\ ReturnedFrom("apply_rules")) =>
                /\ call.result \subseteq GridCells
                /\ call.result = apply_rules(grid_positions \cap GridCells)
                /\ call.result = LifeNext(grid_positions \cap GridCells)
                /\ \A position \in GridCells :
                      count_live_neighbors(grid_positions, position) =
                          LiveNeighbours(grid_positions \cap GridCells, position)

\* apply_rules has returned the two cells of the grid of a live set that
\* also holds the coordinate (2, 0) next to them, outside the 2x2 grid
C20_Witness ==
    /\ ReturnedFrom("apply_rules")
    /\ ROWS = 2
    /\ COLS = 2
    /\ grid_positions = {<<0, 0>>, <<1, 0>>, <<2, 0>>}
    /\ call.result = {<<0, 0>>, <<1, 0>>}

(***************************************************************************)
(* C17: a pass of the loop that starts while playing adds exactly 1 to     *)
(* iteration and to count before the update test, whether or not the grid  *)
(* is updated; the grid is updated in exactly the passes where count has   *)
(* then reached UPDATE_FREQ, and in those count is reset to 0 and the live *)
(* set becomes apply_rules of the previous live set; in the others count   *)
(* keeps the incremented value and the live set is unchanged.              *)
(***************************************************************************)
PlayingTickStep ==
    (pc = "tick" /\ playing) =>
        /\ iteration' = iteration + 1
        /\ updated' = (count + 1 >= UPDATE_FREQ)
        /\ IF count + 1 >= UPDATE_FREQ
           THEN count' = 0 /\ grid_positions' = apply_rules(grid_positions)
           ELSE count' = count + 1 /\ grid_positions' = grid_positions

C17_PlayingTick == [][PlayingTickStep]_vars

\* a pass has started playing and incremented both counters without an
\* update, on a live set that the next update will change
C17_Witness ==
    /\ pc = "events"
    /\ event = NoEvent
    /\ playing
    /\ ~updated
    /\ count = 1
    /\ iteration = 1
    /\ apply_rules(grid_positions) # grid_positions

(***************************************************************************)
(* C18: the cadence of grid updates is not restarted by pausing or         *)
(* reseeding. For every UPDATE_FREQ, count changes only by a pass that     *)
(* starts playing (which adds 1, or resets it to 0 when it updates the     *)
(* grid) and by K_c (which resets it to 0); K_SPACE, K_r, K_p, clicks and  *)
(* paused passes keep it. The grid is updated exactly by the pass that     *)
(* starts playing with count = UPDATE_FREQ - 1, so count is the number of  *)
(* passes started playing since the last update or K_c, and that number is *)
(* exactly UPDATE_FREQ between two updates with no K_c in between.         *)
(***************************************************************************)
CadenceStep ==
    /\ count < UPDATE_FREQ
    /\ pc = "tick" =>
         /\ updated' = (playing /\ count = UPDATE_FREQ - 1)
         /\ count' = IF ~playing THEN count
                     ELSE IF updated' THEN 0
                     ELSE count + 1
    /\ pc # "tick" =>
         IF Handled(KeyEvent("K_c")) THEN count' = 0 ELSE count' = count

C18_Cadence == [][CadenceStep]_vars

\* K_r has been handled while paused, with count kept at 1
C18_Witness ==
    /\ JustHandled(KeyEvent("K_r"))
    /\ ~playing
    /\ count = 1
    /\ iteration = 0
    /\ grid_positions # {}

(***************************************************************************)
(* C19: for every UPDATE_FREQ, at the end of every pass of the loop (after *)
(* the update test and after all events) 0 <= count < UPDATE_FREQ, playing *)
(* or paused.                                                              *)
(***************************************************************************)
C19_CountBelowFreq ==
    pc \in {"tick", "done"} => (0 <= count /\ count < UPDATE_FREQ)

\* a pass has ended paused with count = UPDATE_FREQ - 1 = 1
C19_Witness ==
    /\ pc = "tick"
    /\ UPDATE_FREQ = 2
    /\ count = 1
    /\ ~playing
    /\ iteration > 0

====
